---- MODULE Spec2Model ----
(***************************************************************************)
(* Layover planner: the time-budget calculator, place discovery, the       *)
(* travel-time annotator and the candidate filter/ranker of                *)
(* LayoverPlanner.build_context, the generation gateway of                 *)
(* LayoverPlanner.generate_itinerary_plan / LLMClient.generate_and_validate *)
(* and the route generate_layover_plan, with the Google Maps services and  *)
(* the generation service as the environment.                              *)
(*                                                                         *)
(* Numbers.  Ratings, review counts, minutes, seconds and meters are       *)
(* integers.  The float expressions of the source were compared with their *)
(* integer forms over the whole range the model uses (and far beyond):     *)
(*   int(usable * 0.45)               = (45 * usable) \div 100             *)
(*   layover_minutes / 60.0 < h       = layover_minutes < 60 * h           *)
(*   int(kmh * (m / 60.0) * 1000)     = (kmh * m * 1000) \div 60           *)
(*   int(round(seconds / 60))         = round-half-to-even of seconds / 60 *)
(*                                                                         *)
(* Optional values.  A Python None (or an absent key read with .get) is    *)
(* the empty sequence, a present value v is <<v>>.                         *)
(*                                                                         *)
(* Strings.  A formatted string is the record of the values it shows, and  *)
(* the generation service's text is a sequence of tokens (TextToken).      *)
(***************************************************************************)
EXTENDS Integers, Sequences, FiniteSets, TLC

VARIABLES
    pc,                 \* position of the request in the route and in build_context
    include_debug,      \* generate_layover_plan: include_debug
    phase,              \* "debug_ctx": the route's own build_context call (line 19);
                        \* "plan": generate_itinerary_plan
    arrival_time,       \* request.arrival_time, as the minute of its day
    airport_code,       \* request.airport_code
    leave_buffer_min,   \* LayoverPlanner.leave_buffer_min
    return_buffer_min,  \* LayoverPlanner.return_buffer_min
    layover_minutes,    \* build_context: layover_minutes
    max_one_way,        \* build_context: max_one_way
    radius_m,           \* build_context: radius_m
    qi,                 \* discover_broad_places: queries of the current loop already issued
    all_results,        \* discover_broad_places: all_results
    arrivals,           \* the non-empty result lists of the queries, in the order they arrived
    sent,               \* discover_broad_places: the parameters of the places queries sent so far
    query_failed,       \* some places query has raised
    merged,             \* discover_broad_places: merged, right after _dedupe_by_place_id
    places,             \* build_context: raw_places / enriched (annotated in place)
    bi,                 \* attach_travel_times: i, the start of the next batch
    dm_failed,          \* a distance-matrix call has raised
    dm_dests,           \* attach_travel_times: len(dests) of each get_distances call so far
    candidates,         \* the context's "candidates"
    error,              \* the exception the planner ended with, "none" otherwise
    cause,              \* what raised it
    calls,              \* the external calls of the request so far, per service
    raw,                \* generate_and_validate: raw
    parses,             \* generate_and_validate: the outcome of each model_validate_json call
    plan,               \* the LayoverPlan generate_itinerary_plan returned
    status              \* the HTTP status of the response, 0 before it

budget_vars == <<leave_buffer_min, return_buffer_min, layover_minutes, max_one_way, radius_m>>

discover_vars == <<qi, all_results, arrivals, sent, query_failed, merged>>

annotate_vars == <<places, bi, dm_failed, dm_dests>>

route_vars == <<include_debug, phase, arrival_time, status>>

gateway_vars == <<raw, parses, plan>>

vars == <<pc, airport_code, budget_vars, discover_vars, annotate_vars, candidates, error,
          cause, calls, route_vars, gateway_vars>>

----------------------------------------------------------------------------
(* Helpers                                                                 *)

None == <<>>

Some(v) == <<v>>

Val(o) == o[1]

Max(a, b) == IF a >= b THEN a ELSE b

Min(a, b) == IF a <= b THEN a ELSE b

----------------------------------------------------------------------------
(* Program constants                                                       *)

DefaultLeaveBuffer == 45

DefaultReturnBuffer == 90

AvgKmh == 40

MinRadiusM == 3000

MaxRadiusM == 50000

MAX_RADIUS_M == 50000

DM_CHUNK == 25

DiscoverMaxResults == 80

CandidateCap == 30

NumNearbyTypes == 9

NumTextQueries == 13

\* constants.AIRPORTS: the codes of the airport table
AIRPORTS ==
    {"RUH", "JED", "DMM", "MED", "TIF", "AHB", "ELQ", "YNB", "HAS", "EAM", "AQI",
     "GIZ", "ULH", "URY", "TUU", "WAE", "RAE", "DWD"}

----------------------------------------------------------------------------
(* Bounds of the model                                                     *)

MaxLayover == 900

MaxHits == 2

BulkLen == 36

MaxItems == 4

MaxStops == 9

Layovers == {60, 360, 900}

RequestCodes == {"RUH", "XXX"}

\* 23:20, so that the latest return of a long layover falls on the next day
ArrivalTimes == {1400}

LeaveBuffers == {0, 30, DefaultLeaveBuffer}

ReturnBuffers == {0, 60, DefaultReturnBuffer}

----------------------------------------------------------------------------
(* Time-Budget Calculator                                                  *)

\* faulty variant: the bucket comparisons are inclusive (total_hours <= 3, ...)
allowed_one_way_minutes_inclusive(layover, leave, ret) ==
    LET usable == Max(0, layover - leave - ret)
        bucket == IF layover <= 3 * 60 THEN 10
                  ELSE IF layover <= 5 * 60 THEN 20
                  ELSE IF layover <= 7 * 60 THEN 35
                  ELSE IF layover <= 9 * 60 THEN 55
                  ELSE IF layover <= 12 * 60 THEN 70
                  ELSE IF layover <= 14 * 60 THEN 90
                  ELSE 115
        hard_cap == (usable * 45) \div 100
    IN  IF hard_cap <= 0 THEN 0 ELSE Max(10, Min(bucket, hard_cap))

\* faulty variant: the 7h and 9h buckets are swapped
allowed_one_way_minutes_swapped(layover, leave, ret) ==
    LET usable == Max(0, layover - leave - ret)
        bucket == IF layover < 3 * 60 THEN 10
                  ELSE IF layover < 5 * 60 THEN 20
                  ELSE IF layover < 7 * 60 THEN 55
                  ELSE IF layover < 9 * 60 THEN 35
                  ELSE IF layover < 12 * 60 THEN 70
                  ELSE IF layover < 14 * 60 THEN 90
                  ELSE 115
        hard_cap == (usable * 45) \div 100
    IN  IF hard_cap <= 0 THEN 0 ELSE Max(10, Min(bucket, hard_cap))

\* LayoverPlanner._allowed_one_way_minutes
allowed_one_way_minutes(layover, leave, ret) ==
    LET usable == Max(0, layover - leave - ret)
        bucket == IF layover < 3 * 60 THEN 10
                  ELSE IF layover < 5 * 60 THEN 20
                  ELSE IF layover < 7 * 60 THEN 35
                  ELSE IF layover < 9 * 60 THEN 55
                  ELSE IF layover < 12 * 60 THEN 70
                  ELSE IF layover < 14 * 60 THEN 90
                  ELSE 115
        hard_cap == (usable * 45) \div 100
    IN  IF hard_cap <= 0 THEN 0 ELSE Max(10, Min(bucket, hard_cap))

\* faulty variant: the lower clamp is forgotten
radius_from_one_way_unclamped(one_way_min, avg_kmh) ==
    Min(MaxRadiusM, (avg_kmh * one_way_min * 1000) \div 60)

\* LayoverPlanner._radius_from_one_way
radius_from_one_way(one_way_min, avg_kmh) ==
    LET meters == (avg_kmh * one_way_min * 1000) \div 60
    IN  Max(MinRadiusM, Min(MaxRadiusM, meters))

----------------------------------------------------------------------------
(* The environment: what the places service and the distance-matrix        *)
(* service can answer                                                      *)

\* A place as the places service returns it.  place_id, rating,
\* user_ratings_total and the coordinates may each be absent; "place" is the
\* identifier nested under the key "place" that _dedupe_by_place_id falls
\* back to.
RawPlace(id, nested, rating, cnt, coord) ==
    [place_id |-> id, place |-> nested, rating |-> rating,
     user_ratings_total |-> cnt, location |-> coord]

\* The element the distance-matrix service reports for a destination, by its
\* coordinates: durations are in seconds.
DMElement(coord) ==
    CASE coord = 1 -> [status |-> "OK", duration_in_traffic |-> Some(20), duration |-> Some(25)]
      [] coord = 2 -> [status |-> "OK", duration_in_traffic |-> None, duration |-> Some(600)]
      [] coord = 3 -> [status |-> "ZERO_RESULTS", duration_in_traffic |-> None, duration |-> None]
      [] coord = 4 -> [status |-> "OK", duration_in_traffic |-> Some(1500), duration |-> Some(1200)]
      [] coord = 5 -> [status |-> "OK", duration_in_traffic |-> None, duration |-> None]
      [] coord = 6 -> [status |-> "OK", duration_in_traffic |-> Some(3000), duration |-> Some(2400)]
      [] OTHER     -> [status |-> "OK", duration_in_traffic |-> None, duration |-> Some(150)]

\* The places a query can return on its own.
Pool ==
    { RawPlace(Some(1), None, Some(4), Some(10), Some(1)),   \* half a minute away
      RawPlace(Some(2), None, Some(4), Some(10), Some(2)),   \* same quality, 10 minutes
      RawPlace(Some(1), None, Some(5), Some(10), Some(2)),   \* identifier 1 again, other data
      RawPlace(Some(3), None, None, None, Some(2)),          \* neither rating nor reviews
      RawPlace(None, None, Some(5), Some(30), Some(2)),      \* no identifier
      RawPlace(Some(7), None, Some(5), Some(10), None) }     \* no coordinates

BulkCoords == <<1, 2, 4, 7>>

\* The i-th place of a long result list: every ninth place is one the
\* annotator cannot place (no route, no duration, too far, no coordinates).
BulkPlace(i) ==
    LET coord == IF i % 9 # 0 THEN Some(BulkCoords[(i % 4) + 1])
                 ELSE CASE (i \div 9) % 4 = 1 -> Some(3)
                        [] (i \div 9) % 4 = 2 -> Some(5)
                        [] (i \div 9) % 4 = 3 -> Some(6)
                        [] OTHER -> None
    IN  RawPlace(Some(100 + i), None, Some(3 + (i % 3)), Some(10 * (i % 2)), coord)

Bulk == [i \in 1..BulkLen |-> BulkPlace(i)]

\* What one places query can answer: it raises, or returns a list.  At most
\* MaxHits queries of a request return a non-empty list.
Responses(hits) ==
    {[ok |-> FALSE, results |-> <<>>], [ok |-> TRUE, results |-> <<>>]}
    \cup (IF hits < MaxHits
          THEN {[ok |-> TRUE, results |-> <<p>>] : p \in Pool}
               \cup {[ok |-> TRUE, results |-> Bulk]}
          ELSE {})

----------------------------------------------------------------------------
(* Place Discovery Adapter                                                 *)

Take(s, n) == SubSeq(s, 1, Min(n, Len(s)))

\* _dedupe_by_place_id, line 90
dedupe_pid(it) == IF it.place_id # None THEN it.place_id ELSE it.place

\* faulty variant: a repeated identifier replaces the entry seen before it
dedupe_step_last_wins(acc, it) ==
    LET pid == dedupe_pid(it)
        NotPid(x) == dedupe_pid(x) # pid
    IN  IF pid = None THEN acc
        ELSE [seen |-> acc.seen \cup {pid}, out |-> Append(SelectSeq(acc.out, NotPid), it)]

\* _dedupe_by_place_id, lines 89-94: one iteration of the loop
dedupe_step(acc, it) ==
    LET pid == dedupe_pid(it)
    IN  IF pid = None \/ pid \in acc.seen THEN acc
        ELSE [seen |-> acc.seen \cup {pid}, out |-> Append(acc.out, it)]

\* _dedupe_by_place_id, lines 89-94: the loop over items[lo..hi], in order,
\* from the state acc.  The range is folded half by half, the first half
\* finished before the second starts, which keeps the evaluation shallow.
RECURSIVE dedupe_loop(_, _, _, _)
dedupe_loop(items, lo, hi, acc) ==
    IF lo > hi THEN acc
    ELSE IF lo = hi THEN dedupe_step(acc, items[lo])
    ELSE LET mid == (lo + hi) \div 2
             done == {dedupe_loop(items, mid + 1, hi, first) :
                         first \in {dedupe_loop(items, lo, mid, acc)}}
         IN  CHOOSE r \in done : TRUE

\* MapsService._dedupe_by_place_id
dedupe_by_place_id(items) ==
    dedupe_loop(items, 1, Len(items), [seen |-> {}, out |-> <<>>]).out

\* Python's tuple comparison on tuples of integers of the same length
RECURSIVE TupleLess(_, _)
TupleLess(a, b) ==
    IF Len(a) = 0 THEN FALSE
    ELSE IF Head(a) # Head(b) THEN Head(a) < Head(b)
    ELSE TupleLess(Tail(a), Tail(b))

\* list.sort(key=..., reverse=True) is stable: the entry at position i comes
\* behind every entry with a larger key and behind the entries with an equal
\* key that stood before it.  sort_ranks gives each position its place.
sort_ranks(keys) ==
    [i \in 1..Len(keys) |->
        1 + Cardinality({j \in 1..Len(keys) :
                            \/ TupleLess(keys[i], keys[j])
                            \/ (keys[j] = keys[i] /\ j < i)})]

Reorder(s, rank) == [p \in 1..Len(s) |-> s[CHOOSE i \in 1..Len(s) : rank[i] = p]]

\* list.sort(key=..., reverse=True): descending by key, entries with equal
\* keys in their original order.  keys[i] is the key of s[i].  (The list, the
\* keys and the ranks are bound as elements of singleton sets so that each is
\* computed once.)
sort_reverse(s, keys) ==
    LET sorted == {Reorder(t, r) : <<t, r>> \in {<<s, sort_ranks(k)>> : k \in {keys}}}
    IN  CHOOSE t \in sorted : TRUE

OrZero(o) == IF o = None THEN 0 ELSE Val(o)

\* discover_broad_places, line 319: the sort key
discover_key(r) == <<OrZero(r.rating), OrZero(r.user_ratings_total)>>

\* MapsService._normalize_place_lite (the place has no "_travel" yet)
normalize_place_lite(p) ==
    [place_id |-> p.place_id, rating |-> p.rating,
     user_ratings_total |-> p.user_ratings_total,
     location |-> p.location, travel |-> None]

\* discover_broad_places, lines 305-324, on the merged list (min_rating and
\* min_reviews are None in build_context's call, normalize is True)
discover_finish(results, max_results) ==
    LET m == dedupe_by_place_id(results)
        sorted == sort_reverse(m, [i \in 1..Len(m) |-> discover_key(m[i])])
        cut == Take(sorted, max_results)
    IN  [i \in 1..Len(cut) |-> normalize_place_lite(cut[i])]

----------------------------------------------------------------------------
(* Travel-Time Annotator                                                   *)

\* int(round(value / 60)): Python rounds halves to the even neighbour
round_minutes(value) ==
    LET q == value \div 60
        r == value % 60
    IN  IF 2 * r < 60 THEN q
        ELSE IF 2 * r > 60 THEN q + 1
        ELSE IF q % 2 = 0 THEN q ELSE q + 1

\* faulty variant: the traffic-naive duration is preferred
travel_of_traffic_naive(el) ==
    LET dur == IF el.duration # None THEN el.duration
               ELSE el.duration_in_traffic
    IN  [duration_min |-> IF dur # None THEN Some(round_minutes(Val(dur))) ELSE None]

\* attach_travel_times, lines 386-391: the annotation of an element
\* (distance_km is carried by the source and read by nothing modelled here)
travel_of(el) ==
    LET dur == IF el.duration_in_traffic # None THEN el.duration_in_traffic
               ELSE el.duration
    IN  [duration_min |-> IF dur # None THEN Some(round_minutes(Val(dur))) ELSE None]

\* attach_travel_times, lines 358-370: the positions of the batch that start at
\* i (0-based) and have coordinates, in order
batch_idx_map(ps, i) ==
    LET last == Min(i + DM_CHUNK, Len(ps))
        HasCoord(j) == ps[j].location # None
    IN  SelectSeq([k \in 1..(last - i) |-> i + k], HasCoord)

\* faulty variant: element k goes to the k-th place after the first one that
\* has coordinates, as if no place of the batch had been skipped
attach_elements_contiguous(ps, idx_map, elements) ==
    [j \in 1..Len(ps) |->
        IF \E k \in 1..Len(elements) : idx_map[1] + k - 1 = j /\ elements[k].status = "OK"
        THEN LET k == CHOOSE k \in 1..Len(elements) : idx_map[1] + k - 1 = j
             IN  [ps[j] EXCEPT !.travel = Some(travel_of(elements[k]))]
        ELSE ps[j]]

\* attach_travel_times, lines 383-393: element k goes to place idx_map[k]
attach_elements(ps, idx_map, elements) ==
    [j \in 1..Len(ps) |->
        IF \E k \in 1..Len(elements) : idx_map[k] = j /\ elements[k].status = "OK"
        THEN LET k == CHOOSE k \in 1..Len(elements) : idx_map[k] = j
             IN  [ps[j] EXCEPT !.travel = Some(travel_of(elements[k]))]
        ELSE ps[j]]

----------------------------------------------------------------------------
(* The parameters of the places queries                                    *)

\* nearby_places, lines 130-137: location always, the radius (capped) only
\* when one is given and no rankby is
nearby_kwargs(location, radius, rankby) ==
    [kind |-> "nearby", location |-> location,
     radius |-> IF radius # None /\ rankby = None
                THEN Some(Min(Val(radius), MAX_RADIUS_M)) ELSE None]

\* faulty variant: the caller's radius is dropped and text_search's default
\* of 5000 m is sent
text_search_kwargs_default_radius(location, radius) ==
    [kind |-> "text", location |-> location, radius |-> Some(Min(5000, MAX_RADIUS_M))]

\* text_search, lines 171-175: location and the radius, capped
text_search_kwargs(location, radius) ==
    [kind |-> "text", location |-> location, radius |-> Some(Min(radius, MAX_RADIUS_M))]

----------------------------------------------------------------------------
(* Candidate Ranker/Filter                                                 *)

duration_of(p) == IF p.travel = None THEN None ELSE Val(p.travel).duration_min

\* faulty variant: every annotated place is kept, whatever its duration
reachable_any_duration(p, budget) == duration_of(p) # None

\* build_context, lines 110-114: the place passes the filter
reachable(p, budget) ==
    LET t == duration_of(p)
    IN  IF t = None THEN FALSE ELSE Val(t) <= budget

\* build_context, lines 108-114
filter_reachable(ps, budget) ==
    LET Keep(p) == reachable(p, budget)
    IN  SelectSeq(ps, Keep)

\* build_context.pri, line 119: t or 999
pri_dist(p) ==
    LET t == duration_of(p)
    IN  IF t = None \/ t = Some(0) THEN 999 ELSE Val(t)

\* build_context.pri as a tuple of integers; only used where no comparison of
\* two keys meets a None (see pri_incomparable)
pri(p) == <<OrZero(p.rating), OrZero(p.user_ratings_total), 0 - pri_dist(p)>>

\* Comparing pri(a) with pri(b) raises TypeError: the first components that
\* differ are a None and a number.
pri_incomparable(a, b) ==
    \/ (a.rating = None) # (b.rating = None)
    \/ /\ a.rating = b.rating
       /\ (a.user_ratings_total = None) # (b.user_ratings_total = None)

\* filtered.sort(key=pri, reverse=True) raises: a sort that never compares two
\* such keys cannot order them, so some comparison meets the None
sort_raises(ps) ==
    \E i, j \in 1..Len(ps) : pri_incomparable(ps[i], ps[j])

\* build_context, lines 149-161: an entry of "candidates"
candidate_of(p) ==
    [place_id |-> p.place_id, rating |-> p.rating,
     user_ratings_total |-> p.user_ratings_total, travel |-> p.travel]

\* build_context, lines 122 and 149-161: the ranked, truncated candidates
ranked_candidates(filtered) ==
    LET sorted == sort_reverse(filtered, [i \in 1..Len(filtered) |-> pri(filtered[i])])
        cut == Take(sorted, CandidateCap)
    IN  [i \in 1..Len(cut) |-> candidate_of(cut[i])]

----------------------------------------------------------------------------
(* The plan's metadata strings                                             *)

\* _fmt_hm, lines 62-69: "{h}h {m}m", "{h}h 0m" or "{m}m"
fmt_hm(minutes) ==
    LET h == Max(0, minutes) \div 60
        m == Max(0, minutes) % 60
    IN  IF h # 0 THEN [h |-> Some(h), m |-> Some(m)] ELSE [h |-> None, m |-> Some(m)]

\* strftime("%H:%M") of the arrival day's minute t (t may lie on another day)
strftime_hm(t) == [hh |-> (t % 1440) \div 60, mm |-> t % 60]

\* build_context, lines 91-94 and 124-148: the context's airport_code and
\* meta_* strings, which the prompt (lines 177-182) asks to be copied
context_meta ==
    [airport |-> airport_code,
     layover_duration |-> fmt_hm(layover_minutes),
     safety_buffer |-> [exit |-> leave_buffer_min, return |-> return_buffer_min],
     must_return_by |-> strftime_hm(arrival_time + layover_minutes - return_buffer_min),
     current_time |-> strftime_hm(arrival_time)]

----------------------------------------------------------------------------
(* The generation service's text and its validation                        *)

\* RecommendedStop.transport: the Literal's values
TRANSPORTS == {"walk", "metro", "bus", "taxi", "rideshare"}

\* RecommendedStop, as far as its constraints go: transport and len(tags)
Stop(transport, tags) == [transport |-> transport, tags |-> tags]

\* RecommendedStop: transport is one of the Literal's values or null, tags
\* has at least one entry
stop_valid(st) == (st.transport = None \/ Val(st.transport) \in TRANSPORTS) /\ st.tags >= 1

\* LayoverPlan: metadata is five strings, recommended_stops a list of valid
\* stops of any length
plan_valid(p) == \A i \in 1..Len(p.recommended_stops) : stop_valid(p.recommended_stops[i])

\* a token of the text: a backtick, white space, a word, or a whole JSON
\* document (v is the plan it denotes)
TextToken(t, v) == [t |-> t, v |-> v]

RECURSIVE lstrip(_, _)
lstrip(text, kinds) ==
    IF text # <<>> /\ Head(text).t \in kinds THEN lstrip(Tail(text), kinds) ELSE text

RECURSIVE rstrip(_, _)
rstrip(text, kinds) ==
    IF text # <<>> /\ text[Len(text)].t \in kinds
    THEN rstrip(SubSeq(text, 1, Len(text) - 1), kinds) ELSE text

\* str.strip: the characters of kinds are removed from both ends
strip(text, kinds) == rstrip(lstrip(text, kinds), kinds)

\* LayoverPlan.model_validate_json: the text is one JSON document, white
\* space around it allowed, that satisfies the schema; None stands for
\* ValidationError
model_validate_json(text) ==
    LET doc == strip(text, {"ws"})
    IN  IF Len(doc) = 1 /\ doc[1].t = "json" /\ plan_valid(Val(doc[1].v))
        THEN doc[1].v ELSE None

\* generate_and_validate, line 56: raw.strip() and then .strip of the backtick
cleanup(text) == strip(strip(text, {"ws"}), {"backtick"})

\* faulty variant: a text that fails both parses is answered with a plan of
\* the schema's defaults instead of an error
generate_and_validate_best_effort(text, meta) ==
    LET first == model_validate_json(text)
        second == model_validate_json(cleanup(text))
    IN  IF first # None
        THEN [parses |-> <<[text |-> text, ok |-> TRUE]>>, result |-> first]
        ELSE [parses |-> <<[text |-> text, ok |-> FALSE],
                           [text |-> cleanup(text), ok |-> second # None]>>,
              result |-> IF second # None THEN second
                         ELSE Some([metadata |-> meta, recommended_stops |-> <<>>])]

\* generate_and_validate, lines 53-57, on the text generate_json returned:
\* the parses made and the model returned (None: ValidationError propagates)
generate_and_validate(text, meta) ==
    LET first == model_validate_json(text)
        second == model_validate_json(cleanup(text))
    IN  IF first # None
        THEN [parses |-> <<[text |-> text, ok |-> TRUE]>>, result |-> first]
        ELSE [parses |-> <<[text |-> text, ok |-> FALSE],
                           [text |-> cleanup(text), ok |-> second # None]>>,
              result |-> second]

\* generate_layover_plan, lines 24-29: the except clauses, in their order
http_status(exc) ==
    IF exc = "ValidationError" THEN 422
    ELSE IF exc = "ValueError" THEN 400
    ELSE 500

----------------------------------------------------------------------------
(* What the generation service may answer                                  *)

Tick == TextToken("backtick", None)

Ws == TextToken("ws", None)

Word == TextToken("word", None)

Json(p) == TextToken("json", Some(p))

GoodStop == Stop(Some("taxi"), 1)

Stops(n) == [i \in 1..n |-> GoodStop]

\* metadata the service made up: the departure time as must_return_by
InventedMeta(meta) ==
    [meta EXCEPT !.must_return_by = strftime_hm(arrival_time + layover_minutes)]

\* the JSON documents: the metadata copied and 0..MaxStops stops; the
\* metadata made up; a stop with a transport outside the schema; a stop
\* without tags
Documents(meta) ==
    {[metadata |-> meta, recommended_stops |-> Stops(n)] : n \in 0..MaxStops}
    \cup {[metadata |-> InventedMeta(meta), recommended_stops |-> Stops(4)],
          [metadata |-> meta,
           recommended_stops |-> <<GoodStop, Stop(Some("camel"), 1), GoodStop, GoodStop>>],
          [metadata |-> meta,
           recommended_stops |-> <<GoodStop, GoodStop, Stop(None, 0)>>]}

\* the texts: each document alone; one of them in white space, in a code
\* fence, in a fence with a language tag, in a fence inside white space; an
\* invalid document in a fence; prose; nothing
Texts(meta) ==
    LET doc == [metadata |-> meta, recommended_stops |-> Stops(4)]
        bad == [metadata |-> meta, recommended_stops |-> <<Stop(Some("camel"), 1)>>]
    IN  {<<Json(d)>> : d \in Documents(meta)}
        \cup {<<Ws, Json(doc), Ws>>,
              <<Tick, Tick, Tick, Ws, Json(doc), Ws, Tick, Tick, Tick>>,
              <<Tick, Tick, Tick, Word, Ws, Json(doc), Ws, Tick, Tick, Tick>>,
              <<Ws, Tick, Tick, Tick, Json(doc), Tick, Tick, Tick, Ws>>,
              <<Tick, Tick, Tick, Json(bad), Tick, Tick, Tick>>,
              <<Word, Ws, Word>>,
              <<>>}

----------------------------------------------------------------------------
(* The request, step by step                                               *)

\* build_context, lines 86-97: the layover's budget
ComputeBudget ==
    /\ pc = "budget"
    /\ max_one_way' = allowed_one_way_minutes(layover_minutes, leave_buffer_min,
                                              return_buffer_min)
    /\ radius_m' = radius_from_one_way(max_one_way', AvgKmh)
    /\ pc' = "nearby"
    /\ UNCHANGED <<airport_code, leave_buffer_min, return_buffer_min, layover_minutes>>
    /\ UNCHANGED <<discover_vars, annotate_vars, candidates, error>>
    /\ UNCHANGED <<cause, calls, route_vars, gateway_vars>>

\* build_context, lines 72-84: the airport table, then geocoding
ResolveAirport ==
    /\ pc = "resolve"
    /\ \/ /\ airport_code \notin AIRPORTS
          /\ pc' = "raised" /\ error' = "ValueError" /\ cause' = "unknown_airport"
          /\ calls' = calls
       \/ /\ airport_code \in AIRPORTS
          /\ calls' = [calls EXCEPT !.geocode = @ + 1]
          /\ \E geo \in {"found", "empty", "raises"} :
                CASE geo = "found"  -> pc' = "budget" /\ error' = error /\ cause' = cause
                  [] geo = "empty"  -> /\ pc' = "raised" /\ error' = "ValueError"
                                       /\ cause' = "geocode_empty"
                  [] geo = "raises" -> /\ pc' = "raised" /\ error' = "RuntimeError"
                                       /\ cause' = "geocode_failed"
    /\ UNCHANGED <<airport_code, budget_vars, discover_vars, annotate_vars, candidates>>
    /\ UNCHANGED <<route_vars, gateway_vars>>

\* discover_broad_places, lines 254-269: one nearby query (rankby="distance",
\* so nearby_places sends no radius); a failure is swallowed
NearbyQuery ==
    /\ pc = "nearby"
    /\ \E resp \in Responses(Len(arrivals)) :
          LET res == Take(resp.results, DiscoverMaxResults \div 2)
          IN  /\ all_results' = IF resp.ok THEN all_results \o res ELSE all_results
              /\ arrivals' = IF resp.ok /\ res # <<>> THEN Append(arrivals, res) ELSE arrivals
              /\ query_failed' = (query_failed \/ ~resp.ok)
    /\ sent' = sent \cup {nearby_kwargs("origin", None, Some("distance"))}
    /\ calls' = [calls EXCEPT !.places = @ + 1]
    /\ qi' = IF qi + 1 = NumNearbyTypes THEN 0 ELSE qi + 1
    /\ pc' = IF qi + 1 = NumNearbyTypes THEN "text" ELSE "nearby"
    /\ UNCHANGED <<airport_code, budget_vars, merged, annotate_vars, candidates, error>>
    /\ UNCHANGED <<cause, route_vars, gateway_vars>>

\* discover_broad_places, lines 289-303: one text query, with the radius capped
\* by text_search; a failure is swallowed
TextQuery ==
    /\ pc = "text"
    /\ \E resp \in Responses(Len(arrivals)) :
          LET res == Take(resp.results, DiscoverMaxResults \div 2)
          IN  /\ all_results' = IF resp.ok THEN all_results \o res ELSE all_results
              /\ arrivals' = IF resp.ok /\ res # <<>> THEN Append(arrivals, res) ELSE arrivals
              /\ query_failed' = (query_failed \/ ~resp.ok)
    /\ sent' = sent \cup {text_search_kwargs("origin", radius_m)}
    /\ calls' = [calls EXCEPT !.places = @ + 1]
    /\ qi' = IF qi + 1 = NumTextQueries THEN 0 ELSE qi + 1
    /\ pc' = IF qi + 1 = NumTextQueries THEN "merge" ELSE "text"
    /\ UNCHANGED <<airport_code, budget_vars, merged, annotate_vars, candidates, error>>
    /\ UNCHANGED <<cause, route_vars, gateway_vars>>

\* discover_broad_places, lines 305-324: merge, dedupe, sort, truncate and
\* normalize; build_context then enters attach_travel_times
DiscoverFinish ==
    /\ pc = "merge"
    /\ merged' = dedupe_by_place_id(all_results)
    /\ places' = discover_finish(all_results, DiscoverMaxResults)
    /\ bi' = 0
    /\ pc' = IF Len(places') = 0 THEN "rank" ELSE "annotate"
    /\ UNCHANGED <<airport_code, budget_vars, qi, all_results, arrivals, sent,
                   query_failed, dm_failed, dm_dests, candidates, error>>
    /\ UNCHANGED <<cause, calls, route_vars, gateway_vars>>

\* attach_travel_times, lines 357-393: one batch.  A batch without
\* coordinates sends nothing; get_distances raises when the call fails, and
\* nothing above it catches that.
AttachBatch ==
    /\ pc = "annotate"
    /\ LET idx_map == batch_idx_map(places, bi)
           dests == [k \in 1..Len(idx_map) |-> Val(places[idx_map[k]].location)]
           more == bi + DM_CHUNK < Len(places)
       IN  \/ /\ Len(dests) = 0
              /\ places' = places
              /\ bi' = bi + DM_CHUNK
              /\ pc' = IF more THEN "annotate" ELSE "rank"
              /\ UNCHANGED <<dm_failed, dm_dests, error, cause, calls>>
           \/ /\ Len(dests) > 0
              /\ dm_dests' = Append(dm_dests, Len(dests))
              /\ calls' = [calls EXCEPT !.dm = @ + 1]
              /\ places' = attach_elements(places, idx_map,
                                           [k \in 1..Len(dests) |-> DMElement(dests[k])])
              /\ bi' = bi + DM_CHUNK
              /\ pc' = IF more THEN "annotate" ELSE "rank"
              /\ UNCHANGED <<dm_failed, error, cause>>
           \/ /\ Len(dests) > 0
              /\ dm_dests' = Append(dm_dests, Len(dests))
              /\ calls' = [calls EXCEPT !.dm = @ + 1]
              /\ dm_failed' = TRUE
              /\ pc' = "raised" /\ error' = "RuntimeError" /\ cause' = "dm_failed"
              /\ UNCHANGED <<places, bi>>
    /\ UNCHANGED <<airport_code, budget_vars, discover_vars, candidates>>
    /\ UNCHANGED <<route_vars, gateway_vars>>

\* build_context, lines 108-162: filter, rank, truncate, return the context
FilterRankReturn ==
    /\ pc = "rank"
    /\ LET filtered == filter_reachable(places, max_one_way)
       IN  IF sort_raises(filtered)
           THEN /\ pc' = "raised" /\ error' = "TypeError" /\ cause' = "sort_failed"
                /\ candidates' = candidates
           ELSE /\ pc' = "returned" /\ error' = error /\ cause' = cause
                /\ candidates' = ranked_candidates(filtered)
    /\ UNCHANGED <<airport_code, budget_vars, discover_vars, annotate_vars>>
    /\ UNCHANGED <<calls, route_vars, gateway_vars>>

\* generate_itinerary_plan, lines 166-207, once its build_context has
\* returned: generate_json calls the service once (it may raise), then
\* generate_and_validate parses the text; model_validate of the validated
\* model returns it as it is
GenerateItineraryPlan ==
    /\ pc = "returned" /\ phase = "plan"
    /\ calls' = [calls EXCEPT !.generation = @ + 1]
    /\ \/ /\ pc' = "raised" /\ error' = "APIError" /\ cause' = "generation_failed"
          /\ UNCHANGED gateway_vars
       \/ \E text \in Texts(context_meta) :
             LET res == generate_and_validate(text, context_meta)
             IN  /\ raw' = Some(text)
                 /\ parses' = res.parses
                 /\ plan' = res.result
                 /\ IF res.result = None
                    THEN /\ pc' = "raised" /\ error' = "ValidationError"
                         /\ cause' = "generation_invalid"
                    ELSE pc' = "generated" /\ error' = error /\ cause' = cause
    /\ UNCHANGED <<airport_code, budget_vars, discover_vars, annotate_vars, candidates>>
    /\ UNCHANGED route_vars

\* generate_layover_plan, lines 19-20, include_debug: the route has built a
\* context of its own and now calls generate_itinerary_plan, which builds
\* the context again (line 165).  The route keeps the first context only to
\* return it.
PlanAfterDebugContext ==
    /\ pc = "returned" /\ phase = "debug_ctx"
    /\ phase' = "plan"
    /\ pc' = "resolve"
    /\ max_one_way' = 0 /\ radius_m' = 0
    /\ qi' = 0 /\ all_results' = <<>> /\ arrivals' = <<>> /\ sent' = {}
    /\ query_failed' = FALSE
    /\ merged' = <<>> /\ places' = <<>> /\ bi' = 0 /\ dm_failed' = FALSE
    /\ dm_dests' = <<>> /\ candidates' = <<>>
    /\ UNCHANGED <<airport_code, leave_buffer_min, return_buffer_min, layover_minutes>>
    /\ UNCHANGED <<error, cause, calls, include_debug, arrival_time, status>>
    /\ UNCHANGED gateway_vars

\* generate_layover_plan, lines 17-29: the plan is returned, or the
\* exception becomes an HTTPException
Respond ==
    /\ pc \in {"generated", "raised"}
    /\ status' = IF pc = "generated" THEN 200 ELSE http_status(error)
    /\ pc' = "done"
    /\ UNCHANGED <<airport_code, budget_vars, discover_vars, annotate_vars, candidates>>
    /\ UNCHANGED <<error, cause, calls, include_debug, phase, arrival_time, gateway_vars>>

Idle ==
    /\ qi = 0 /\ arrivals = <<>> /\ sent = {} /\ query_failed = FALSE
    /\ merged = <<>> /\ places = <<>> /\ bi = 0 /\ dm_failed = FALSE
    /\ dm_dests = <<>>
    /\ candidates = <<>> /\ error = "none" /\ cause = "none"
    /\ calls = [s \in {"geocode", "places", "dm", "generation"} |-> 0]
    /\ raw = None /\ parses = <<>> /\ plan = None /\ status = 0

\* a function of the planner called on its own, outside the route
Direct ==
    /\ include_debug = FALSE /\ phase = "plan" /\ arrival_time = 0

\* The module-level planner (default buffers) serving one request.
Init ==
    /\ pc = "resolve"
    /\ airport_code \in RequestCodes
    /\ leave_buffer_min = DefaultLeaveBuffer
    /\ return_buffer_min = DefaultReturnBuffer
    /\ layover_minutes \in Layovers
    /\ arrival_time \in ArrivalTimes
    /\ include_debug \in BOOLEAN
    /\ phase = IF include_debug THEN "debug_ctx" ELSE "plan"
    /\ max_one_way = 0
    /\ radius_m = 0
    /\ all_results = <<>>
    /\ Idle

Next ==
    \/ ResolveAirport
    \/ ComputeBudget
    \/ NearbyQuery
    \/ TextQuery
    \/ DiscoverFinish
    \/ AttachBatch
    \/ FilterRankReturn
    \/ PlanAfterDebugContext
    \/ GenerateItineraryPlan
    \/ Respond

Spec == Init /\ [][Next]_vars

----------------------------------------------------------------------------
(* _dedupe_by_place_id alone, over every list of up to MaxItems items      *)

DedupeItems ==
    { RawPlace(Some(1), None, Some(1), None, None),
      RawPlace(Some(1), None, Some(2), None, None),
      RawPlace(Some(2), None, Some(1), None, None),
      RawPlace(Some(2), Some(1), Some(2), None, None),
      RawPlace(None, Some(1), Some(3), None, None),
      RawPlace(None, None, Some(1), None, None) }

RECURSIVE SeqsUpTo(_, _)
SeqsUpTo(S, n) ==
    IF n = 0 THEN {<<>>}
    ELSE LET shorter == SeqsUpTo(S, n - 1)
         IN  shorter \cup {Append(s, x) : s \in shorter, x \in S}

InitDedupe ==
    /\ pc = "dedupe"
    /\ airport_code = "RUH"
    /\ leave_buffer_min = DefaultLeaveBuffer
    /\ return_buffer_min = DefaultReturnBuffer
    /\ layover_minutes = 0 /\ max_one_way = 0 /\ radius_m = 0
    /\ all_results \in SeqsUpTo(DedupeItems, MaxItems)
    /\ Idle /\ Direct

\* a call of _dedupe_by_place_id(all_results)
DedupeCall ==
    /\ pc = "dedupe"
    /\ merged' = dedupe_by_place_id(all_results)
    /\ pc' = "deduped"
    /\ UNCHANGED <<airport_code, budget_vars, qi, all_results, arrivals, sent,
                   query_failed, annotate_vars, candidates, error>>
    /\ UNCHANGED <<cause, calls, route_vars, gateway_vars>>

NextDedupe == DedupeCall

SpecDedupe == InitDedupe /\ [][NextDedupe]_vars

----------------------------------------------------------------------------
(* The calculator alone, over every layover up to MaxLayover               *)

InitBudget ==
    /\ pc = "budget"
    /\ leave_buffer_min \in LeaveBuffers
    /\ return_buffer_min \in ReturnBuffers
    /\ layover_minutes \in 0..MaxLayover
    /\ max_one_way = 0
    /\ radius_m = 0
    /\ airport_code = "RUH"
    /\ all_results = <<>>
    /\ Idle /\ Direct

NextBudget == ComputeBudget

SpecBudget == InitBudget /\ [][NextBudget]_vars

Budgeted == pc = "nearby"

UsableMinutes == Max(0, layover_minutes - leave_buffer_min - return_buffer_min)

----------------------------------------------------------------------------
(* Claims about the Time-Budget Calculator (checked under SpecBudget)      *)

\* C1: for every layover and every pair of non-negative buffers the one-way
\* allowance is >= 0 and is at most 45% of the usable minutes.
C1_AllowanceWithinHardCap ==
    Budgeted => /\ max_one_way >= 0
                /\ 100 * max_one_way <= 45 * UsableMinutes

\* The step table of the specification, keyed on minutes: an upper bound
\* (exclusive) and the bucket chosen below it.
RefBuckets ==
    << <<180, 10>>, <<300, 20>>, <<420, 35>>, <<540, 55>>, <<720, 70>>, <<840, 90>> >>

RefBucket(L) ==
    LET below == {i \in 1..Len(RefBuckets) : L < RefBuckets[i][1]}
    IN  IF below = {} THEN 115
        ELSE RefBuckets[CHOOSE i \in below : \A j \in below : i <= j][2]

RefHardCap(usable) ==
    CHOOSE h \in 0..usable : 100 * h <= 45 * usable /\ 100 * (h + 1) > 45 * usable

RefAllowance(L, leave, ret) ==
    LET usable == IF L - leave - ret > 0 THEN L - leave - ret ELSE 0
        cap == RefHardCap(usable)
        bucket == RefBucket(L)
        capped == IF cap < bucket THEN cap ELSE bucket
    IN  IF cap <= 0 THEN 0 ELSE IF capped < 10 THEN 10 ELSE capped

\* C3: the allowance equals the reference function (usable minutes, hard cap
\* floor(0.45 * usable), step table with exclusive upper bounds, 0 when the
\* hard cap is not positive, else max(10, min(bucket, hardCap))); a layover of
\* 360 minutes with buffers 45/90 has usable 225, hard cap 101, allowance 35,
\* and a layover of exactly 180 minutes uses the bucket of 20.
C3_AllowanceIsReference ==
    Budgeted =>
        /\ max_one_way = RefAllowance(layover_minutes, leave_buffer_min, return_buffer_min)
        /\ (layover_minutes = 360 /\ leave_buffer_min = 45 /\ return_buffer_min = 90)
              => (UsableMinutes = 225 /\ RefHardCap(UsableMinutes) = 101 /\ max_one_way = 35)
        /\ (layover_minutes = 180 /\ leave_buffer_min = 0 /\ return_buffer_min = 0)
              => max_one_way = 20

C3_Witness ==
    /\ Budgeted
    /\ layover_minutes = 360 /\ leave_buffer_min = 45 /\ return_buffer_min = 90
    /\ max_one_way = 35

\* C4: for fixed buffers the allowance is monotonically non-decreasing in the
\* layover length: no shorter layover has a larger allowance.
C4_AllowanceMonotone ==
    Budgeted =>
        \A L1 \in 0..layover_minutes :
            allowed_one_way_minutes(L1, leave_buffer_min, return_buffer_min) <= max_one_way

\* a bucket boundary (299 -> 300) and the point where the hard cap becomes
\* positive (137 -> 138) both lie below the layover of the state
C4_Witness ==
    /\ Budgeted
    /\ layover_minutes = 300 /\ leave_buffer_min = 45 /\ return_buffer_min = 90
    /\ max_one_way = 35
    /\ allowed_one_way_minutes(299, leave_buffer_min, return_buffer_min) = 20
    /\ allowed_one_way_minutes(138, leave_buffer_min, return_buffer_min) = 10
    /\ allowed_one_way_minutes(137, leave_buffer_min, return_buffer_min) = 0

RefRadius(m) ==
    IF 2000 * m < 3 * 3000 THEN 3000
    ELSE IF 2000 * m >= 3 * 50000 THEN 50000
    ELSE (2000 * m) \div 3

\* C5: for every allowance m the calculator returns, the radius is
\* floor(40 * m * 1000 / 60) clamped to [3000, 50000]: always within the
\* clamp, 3000 when m = 0 and 23333 when m = 35.
C5_RadiusClamped ==
    Budgeted =>
        /\ radius_m = RefRadius(max_one_way)
        /\ radius_m >= 3000 /\ radius_m <= 50000
        /\ max_one_way = 0 => radius_m = 3000
        /\ max_one_way = 35 => radius_m = 23333

C5_Witness == Budgeted /\ max_one_way = 35 /\ radius_m = 23333

C5_WitnessZero == Budgeted /\ max_one_way = 0 /\ radius_m = 3000

C5_WitnessUpper == Budgeted /\ max_one_way = 115 /\ radius_m = 50000

----------------------------------------------------------------------------
(* Claims about build_context (checked under Spec)                         *)

Returned == pc = "returned"

\* C2: whenever the one-way allowance is 0, build_context either runs no
\* place discovery or returns an empty candidate list, whatever the services
\* report.
C2_ZeroAllowanceNoCandidates ==
    (Returned /\ max_one_way = 0) => (sent = {} \/ candidates = <<>>)

\* C6: a returned context has at most 30 candidates, each with a travel
\* annotation whose duration is a number within max_one_way, and no place
\* left without an annotation or without a duration is among them.
C6_CandidatesAnnotatedWithinBudget ==
    Returned =>
        /\ Len(candidates) <= 30
        /\ \A k \in 1..Len(candidates) :
              /\ candidates[k].travel # None
              /\ Val(candidates[k].travel).duration_min # None
              /\ Val(Val(candidates[k].travel).duration_min) <= max_one_way
        /\ \A j \in 1..Len(places) :
              (places[j].travel = None \/ Val(places[j].travel).duration_min = None)
                  => \A k \in 1..Len(candidates) :
                        candidates[k].place_id # places[j].place_id

\* more than 30 places are annotated with a duration, some place is not, some
\* place is beyond the budget, and the list is cut to 30
C6_Witness ==
    /\ Returned
    /\ Len(candidates) = 30
    /\ Cardinality({j \in 1..Len(places) :
                      places[j].travel # None
                      /\ Val(places[j].travel).duration_min # None}) > 30
    /\ \E j \in 1..Len(places) : places[j].travel = None
    /\ \E j \in 1..Len(places) :
          /\ places[j].travel # None
          /\ Val(places[j].travel).duration_min # None
          /\ Val(Val(places[j].travel).duration_min) > max_one_way

CandRating(c) == OrZero(c.rating)

CandReviews(c) == OrZero(c.user_ratings_total)

CandDuration(c) == Val(Val(c.travel).duration_min)

\* C7: in the ranked list, for a listed before b: rating(a) >= rating(b); with
\* equal ratings reviewCount(a) >= reviewCount(b); with both equal
\* travelDuration(a) <= travelDuration(b), a duration of 0 minutes included.
C7_RankedByRatingReviewsDuration ==
    Returned =>
        \A i, j \in 1..Len(candidates) :
            i < j =>
                LET a == candidates[i]
                    b == candidates[j]
                IN  /\ CandRating(a) >= CandRating(b)
                    /\ CandRating(a) = CandRating(b) => CandReviews(a) >= CandReviews(b)
                    /\ (CandRating(a) = CandRating(b) /\ CandReviews(a) = CandReviews(b))
                          => CandDuration(a) <= CandDuration(b)

RECURSIVE Flatten(_)
Flatten(ss) == IF ss = <<>> THEN <<>> ELSE Head(ss) \o Flatten(Tail(ss))

SeqToSet(s) == {s[i] : i \in 1..Len(s)}

Discovered == pc \in {"annotate", "rank"} /\ bi = 0

\* C9: the places discover_broad_places returns do not depend on the order in
\* which the queries' result lists arrive: every permutation of the same
\* lists gives the same set of places.
C9_ArrivalOrderIndependent ==
    Discovered =>
        \A f \in Permutations(1..Len(arrivals)) :
            LET reordered == [k \in 1..Len(arrivals) |-> arrivals[f[k]]]
            IN  SeqToSet(discover_finish(Flatten(reordered), DiscoverMaxResults))
                    = SeqToSet(places)

\* C10: a single failed discovery query or a single failed distance-matrix
\* batch is absorbed: build_context does not end with the service's error.
C10_PartialFailureAbsorbed ==
    (query_failed \/ dm_failed) => ~(pc = "raised" /\ error = "RuntimeError")

\* C16: a retained candidate without a rating or without a review count is
\* ranked as if the value were 0: build_context does not end with an error of
\* the ranking, and the returned list is ordered by rating and then by review
\* count with 0 for the missing values.
C16_MissingQualityRankedAsZero ==
    /\ ~(pc \in {"raised", "done"} /\ cause = "sort_failed")
    /\ Returned =>
          \A i, j \in 1..Len(candidates) :
              i < j =>
                  /\ CandRating(candidates[i]) >= CandRating(candidates[j])
                  /\ CandRating(candidates[i]) = CandRating(candidates[j])
                        => CandReviews(candidates[i]) >= CandReviews(candidates[j])

\* C17 as stated: every discovery query, category-based or free-text, is
\* sent centered on the origin and carries the computed radius, capped at
\* 50000 m.
C17_EveryQueryCarriesRadius ==
    \A q \in sent :
        /\ q.location = "origin"
        /\ q.radius = Some(Min(radius_m, 50000))

\* C17, amended: every discovery query is centered on the origin; every
\* free-text query carries the computed radius, capped at 50000 m; the
\* category-based queries are ranked by distance and carry no radius.
C17_TextQueriesCarryRadius ==
    \A q \in sent :
        /\ q.location = "origin"
        /\ q.kind = "text" => q.radius = Some(Min(radius_m, 50000))
        /\ q.kind = "nearby" => q.radius = None

\* both batteries have been sent, with the radius of a 360-minute layover
C17_Witness ==
    /\ pc = "merge"
    /\ radius_m = 23333
    /\ \E q \in sent : q.kind = "nearby"
    /\ \E q \in sent : q.kind = "text" /\ q.radius = Some(23333)

\* m is the number of seconds v in minutes, rounded to a nearest minute
NearestMinute(m, v) == 60 * m - v \in -30..30

\* the annotation place p must carry once its batch has been answered, el
\* being the element the service returns for p's coordinates
AnnotatedFrom(p, el) ==
    IF el.status # "OK" THEN p.travel = None
    ELSE /\ p.travel # None
         /\ LET m == Val(p.travel).duration_min
            IN  IF el.duration_in_traffic # None
                THEN m # None /\ NearestMinute(Val(m), Val(el.duration_in_traffic))
                ELSE IF el.duration # None
                THEN m # None /\ NearestMinute(Val(m), Val(el.duration))
                ELSE m = None

\* C18: every distance-matrix call carries between 1 and 25 destinations;
\* the element returned for the coordinates sent at position k is attached to
\* the place those coordinates belong to; a place whose element is not OK, or
\* that has no coordinates (or whose batch has not been answered), carries no
\* annotation; the duration comes from the traffic-aware field when the
\* element has one, else from the traffic-naive field.
C18_AnnotationsMatchElements ==
    /\ \A c \in 1..Len(dm_dests) : dm_dests[c] >= 1 /\ dm_dests[c] <= 25
    /\ \A j \in 1..Len(places) :
          IF j > bi \/ places[j].location = None
          THEN places[j].travel = None
          ELSE AnnotatedFrom(places[j], DMElement(Val(places[j].location)))

\* 36 places in two calls, the first with 25 destinations or fewer because
\* of places without coordinates; a place without coordinates lies between
\* two annotated ones; an element that is not OK; a duration taken from the
\* traffic-aware field and one from the traffic-naive field
C18_Witness ==
    /\ pc = "rank"
    /\ Len(places) > 25 /\ Len(dm_dests) = 2
    /\ dm_dests[1] + dm_dests[2] < Len(places)
    /\ \E i, j, k \in 1..Len(places) :
          /\ i < j /\ j < k /\ k <= 25
          /\ places[i].travel # None
          /\ places[j].location = None
          /\ places[k].travel # None
    /\ \E j \in 1..Len(places) :
          /\ places[j].location # None
          /\ DMElement(Val(places[j].location)).status # "OK"
          /\ places[j].travel = None
    /\ \E j \in 1..Len(places) :
          /\ places[j].location = Some(4)
          /\ places[j].travel = Some([duration_min |-> Some(25)])
    /\ \E j \in 1..Len(places) :
          /\ places[j].location = Some(2)
          /\ places[j].travel = Some([duration_min |-> Some(10)])

----------------------------------------------------------------------------
(* Claims about the generation gateway and the route (checked under Spec)  *)

\* the request has passed build_context and reached the generation service
ReachedGeneration ==
    \/ pc = "generated"
    \/ pc \in {"raised", "done"}
       /\ cause \in {"none", "generation_failed", "generation_invalid"}

\* t is r with white space and backticks cut off its two ends, and nothing else
Trimmed(t, r) ==
    /\ \E i \in 1..(Len(r) + 1), j \in 0..Len(r) :
          /\ t = SubSeq(r, i, j)
          /\ \A k \in 1..Len(r) : (k < i \/ k > j) => r[k].t \in {"ws", "backtick"}
    /\ t # <<>> => (t[1].t # "backtick" /\ t[Len(t)].t # "backtick")

\* C11: the generation service is invoked once per request that reaches it
\* and never twice; its text is parsed; only when that parse fails the same
\* text, trimmed, is parsed once more, without a second generation call; when
\* that fails too an error is raised; a plan is returned only if one of the
\* two parses succeeded, and it is what that parse gave.
C11_OneGenerationTwoParses ==
    /\ calls.generation <= 1
    /\ ReachedGeneration => calls.generation = 1
    /\ raw = None => (parses = <<>> /\ plan = None)
    /\ raw # None =>
          /\ calls.generation = 1
          /\ Len(parses) \in {1, 2}
          /\ parses[1].text = Val(raw)
          /\ parses[1].ok = (model_validate_json(Val(raw)) # None)
          /\ (Len(parses) = 2) = ~parses[1].ok
          /\ Len(parses) = 2 =>
                /\ Trimmed(parses[2].text, Val(raw))
                /\ parses[2].ok = (model_validate_json(parses[2].text) # None)
          /\ (\A k \in 1..Len(parses) : ~parses[k].ok) =>
                (plan = None /\ pc \in {"raised", "done"} /\ error = "ValidationError")
    /\ plan # None =>
          \E k \in 1..Len(parses) :
              parses[k].ok /\ plan = model_validate_json(parses[k].text)
    /\ (pc = "generated" \/ status = 200) => plan # None

\* a fenced document: the first parse fails, the parse of the trimmed text
\* gives the plan, after one generation call
C11_Witness ==
    /\ pc = "done" /\ status = 200
    /\ calls.generation = 1
    /\ Len(parses) = 2 /\ ~parses[1].ok /\ parses[2].ok
    /\ parses[2].text # Val(raw)
    /\ plan # None

\* C12: when the generation service's text parses neither as it is nor after
\* the cleanup, the request is answered with the server error 500, not with
\* 422 or 400.
C12_UnparsableTextIsServerError ==
    (pc = "done" /\ cause = "generation_invalid") => status = 500

NoCalls == [geocode |-> 0, places |-> 0, dm |-> 0, generation |-> 0]

\* C13: a request whose airport code is not in the table, or whose geocoding
\* lookup yields nothing, ends with 400 and no plan; for the unknown code no
\* external call at all has been made, for the empty geocoding result no
\* discovery, distance-matrix or generation call.
C13_UnresolvedAirportIsValueError ==
    /\ cause = "unknown_airport" =>
          /\ calls = NoCalls
          /\ plan = None
          /\ pc = "done" => status = 400
    /\ cause = "geocode_empty" =>
          /\ calls.places = 0 /\ calls.dm = 0 /\ calls.generation = 0
          /\ plan = None
          /\ pc = "done" => status = 400

\* C14: in every plan returned the metadata fields airport,
\* layover_duration, safety_buffer, must_return_by and current_time equal the
\* strings build_context precomputed, whatever the generation service
\* returned.
C14_MetadataIsPrecomputed ==
    plan # None =>
        LET meta == Val(plan).metadata
        IN  /\ meta.airport = airport_code
            /\ meta.layover_duration = fmt_hm(layover_minutes)
            /\ meta.safety_buffer = [exit |-> leave_buffer_min, return |-> return_buffer_min]
            /\ meta.must_return_by =
                  strftime_hm(arrival_time + layover_minutes - return_buffer_min)
            /\ meta.current_time = strftime_hm(arrival_time)

\* C15: every plan that passed validation and is returned has between 3 and
\* 8 recommended stops; a generation response with fewer than 3 or more than
\* 8 stops is rejected.
C15_ThreeToEightStops ==
    plan # None =>
        /\ Len(Val(plan).recommended_stops) >= 3
        /\ Len(Val(plan).recommended_stops) <= 8

----------------------------------------------------------------------------
(* Claims about _dedupe_by_place_id (checked under SpecDedupe)             *)

Deduped == pc = "deduped"

\* the position of the first item of all_results with identifier pid
FirstWith(pid) ==
    CHOOSE i \in 1..Len(all_results) :
        /\ dedupe_pid(all_results[i]) = pid
        /\ \A j \in 1..(i - 1) : dedupe_pid(all_results[j]) # pid

\* C8: in the list _dedupe_by_place_id returns each place identifier of the
\* input occurs exactly once, its entry is the first input entry with that
\* identifier, and the retained entries are in input order.
C8_DedupeFirstSeen ==
    Deduped =>
        /\ \A i \in 1..Len(all_results) :
              dedupe_pid(all_results[i]) # None =>
                  Cardinality({k \in 1..Len(merged) :
                      dedupe_pid(merged[k]) = dedupe_pid(all_results[i])}) = 1
        /\ \A k \in 1..Len(merged) :
              /\ dedupe_pid(merged[k]) # None
              /\ merged[k] = all_results[FirstWith(dedupe_pid(merged[k]))]
        /\ \A k, l \in 1..Len(merged) :
              k < l => FirstWith(dedupe_pid(merged[k])) < FirstWith(dedupe_pid(merged[l]))

\* identifier 1 comes twice with different data, after an entry of identifier
\* 2 and an entry without identifier
C8_Witness ==
    /\ Deduped
    /\ Len(all_results) >= 4
    /\ Len(merged) = 2
    /\ \E i, j \in 1..Len(all_results) :
          /\ i < j
          /\ dedupe_pid(all_results[i]) = dedupe_pid(all_results[j])
          /\ all_results[i] # all_results[j]
          /\ merged[2] = all_results[i]
    /\ \E i \in 1..Len(all_results) : dedupe_pid(all_results[i]) = None

====
